---- MODULE Spec2Model ----
(***************************************************************************)
(* A model of the regular-expression engine of src/src/main.rs: the        *)
(* compiler (ReCompiler::compile, compile_phrase) and the backtracking     *)
(* matcher (match_pattern, Matcher::match_phrase, match_here,              *)
(* match_quant_greedy, match_group, match_group_end, match_backref,        *)
(* match_char).                                                            *)
(*                                                                         *)
(* A string is a sequence of one-character strings.  The loops of compile, *)
(* match_pattern and match_phrase are actions, one per iteration; the      *)
(* recursive functions are RECURSIVE operators computed as the code        *)
(* computes them.  A panic and a call-stack overflow abort the process:    *)
(* they are outcomes of their own, which every caller passes on.           *)
(***************************************************************************)
EXTENDS Integers, Sequences, FiniteSets, TLC

VARIABLES
    re,         \* the pattern text given to match_pattern
    text,       \* the input text given to match_pattern
    pc,         \* where match_pattern stands
    re_pos,     \* compile: re_iter, as the index of the character peek() sees
    phrases,    \* compile: the phrases pushed so far
    groups,     \* compile: compiler.groups
    phrase_i,   \* match_pattern: index of the phrase the for loop is at
    skipped,    \* match_phrase: characters the scan loop has taken off text_iter
    outcome     \* what match_pattern returned, or how the process aborted

vars == <<re, text, pc, re_pos, phrases, groups, phrase_i, skipped, outcome>>

----------------------------------------------------------------------------
(* Bounds of the model *)

\* longest pattern text over PatternAlphabet
MaxReLen == 3
\* longest input text over TextAlphabet
MaxTextLen == 3
\* phrases the compile loop may push before the model stops following it
MaxPhrases == 4
\* call depth at which the process runs out of stack
StackLimit == 24

\* usize::MAX; it is only ever compared with 0 and decremented, and the
\* decrements are bounded by StackLimit
UsizeMax == 2147483647

----------------------------------------------------------------------------
(* Characters *)

DigitSeq == <<"0", "1", "2", "3", "4", "5", "6", "7", "8", "9">>

is_ascii_digit(c) == \E i \in 1..Len(DigitSeq) : DigitSeq[i] = c

AsciiLetters ==
    {"a", "b", "c", "d", "e", "f", "g", "h", "i", "j", "k", "l", "m",
     "n", "o", "p", "q", "r", "s", "t", "u", "v", "w", "x", "y", "z",
     "A", "B", "C", "D", "E", "F", "G", "H", "I", "J", "K", "L", "M",
     "N", "O", "P", "Q", "R", "S", "T", "U", "V", "W", "X", "Y", "Z"}

is_ascii_alphanumeric(c) == c \in AsciiLetters \/ is_ascii_digit(c)

\* char::to_digit(10) of a decimal digit
to_digit(c) == (CHOOSE i \in 1..Len(DigitSeq) : DigitSeq[i] = c) - 1

\* str::contains(char)
contains(s, c) == \E i \in 1..Len(s) : s[i] = c

----------------------------------------------------------------------------
(* ReItem: one record shape for every variant *)

Item(t, c, s, n, alts) == [t |-> t, c |-> c, s |-> s, n |-> n, alts |-> alts]

Char(c) == Item("Char", c, <<>>, 0, <<>>)
Digit == Item("Digit", "", <<>>, 0, <<>>)
Alphanum == Item("Alphanum", "", <<>>, 0, <<>>)
CharClass(s) == Item("CharClass", "", s, 0, <<>>)
NegCharClass(s) == Item("NegCharClass", "", s, 0, <<>>)
AnchorStart == Item("AnchorStart", "", <<>>, 0, <<>>)
AnchorEnd == Item("AnchorEnd", "", <<>>, 0, <<>>)
QuantZeroPlus == Item("QuantZeroPlus", "", <<>>, 0, <<>>)
QuantOnePlus == Item("QuantOnePlus", "", <<>>, 0, <<>>)
QuantZeroOrOne == Item("QuantZeroOrOne", "", <<>>, 0, <<>>)
Wildcard == Item("Wildcard", "", <<>>, 0, <<>>)
Group(n, alts) == Item("Group", "", <<>>, n, alts)
GroupEnd(n) == Item("GroupEnd", "", <<>>, n, <<>>)
Backreference(n) == Item("Backreference", "", <<>>, n, <<>>)

----------------------------------------------------------------------------
(* The compiler *)

\* CompileState; acc is the String of CharClass and NegCharClass
CState(s, acc) == [s |-> s, acc |-> acc]

\* what compile_phrase leaves behind: the phrase, re_iter and self.groups,
\* or the panic that ended the process
Compiled(items, pos, n) == [err |-> "", items |-> items, pos |-> pos, groups |-> n]
CompilePanic(msg, pos) == [err |-> msg, items |-> <<>>, pos |-> pos, groups |-> 0]

RECURSIVE compile_phrase_loop(_, _, _, _, _)
RECURSIVE compile_group(_, _, _, _)

\* one iteration of `while let Some(&c) = re_iter.peek()`, and the rest of
\* the loop after it
compile_phrase_loop(r, pos, n, state, items) ==
    IF pos > Len(r) THEN Compiled(items, pos, n)
    ELSE LET c == r[pos] IN
      CASE state.s \in {"None", "Beginning"} ->
             ( CASE c = "\\" -> compile_phrase_loop(r, pos + 1, n, CState("Escaped", <<>>), items)
                 [] c = "[" -> compile_phrase_loop(r, pos + 1, n, CState("CharClassStart", <<>>), items)
                 [] c = "]" -> CompilePanic("Error: found ']' outside of character class", pos)
                 [] c = "^" /\ state.s = "Beginning" ->
                      compile_phrase_loop(r, pos + 1, n, CState("None", <<>>), Append(items, AnchorStart))
                 [] c = "$" -> compile_phrase_loop(r, pos + 1, n, state, Append(items, AnchorEnd))
                 [] c = "*" -> compile_phrase_loop(r, pos + 1, n, state, Append(items, QuantZeroPlus))
                 [] c = "+" -> compile_phrase_loop(r, pos + 1, n, state, Append(items, QuantOnePlus))
                 [] c = "?" -> compile_phrase_loop(r, pos + 1, n, state, Append(items, QuantZeroOrOne))
                 [] c = "." -> compile_phrase_loop(r, pos + 1, n, state, Append(items, Wildcard))
                 [] c = "(" -> compile_phrase_loop(r, pos + 1, n, CState("Group", <<>>), items)
                 [] c \in {"|", ")"} -> Compiled(items, pos, n)
                 [] OTHER -> compile_phrase_loop(r, pos + 1, n, state, Append(items, Char(c))) )
        [] state.s = "Escaped" ->
             ( CASE c = "d" -> compile_phrase_loop(r, pos + 1, n, CState("None", <<>>), Append(items, Digit))
                 [] c = "w" -> compile_phrase_loop(r, pos + 1, n, CState("None", <<>>), Append(items, Alphanum))
                 [] c = "\\" -> compile_phrase_loop(r, pos + 1, n, CState("None", <<>>), Append(items, Char(c)))
                 [] is_ascii_digit(c) /\ c # "0" ->
                      compile_phrase_loop(r, pos + 1, n, CState("None", <<>>),
                                          Append(items, Backreference(to_digit(c) - 1)))
                 [] OTHER -> CompilePanic("Invalid escape", pos) )
        [] state.s = "CharClassStart" ->
             ( CASE c = "]" -> compile_phrase_loop(r, pos + 1, n, CState("None", <<>>), items)
                 [] c = "^" -> compile_phrase_loop(r, pos + 1, n, CState("NegCharClass", <<>>), items)
                 [] OTHER -> compile_phrase_loop(r, pos + 1, n, CState("CharClass", <<c>>), items) )
        [] state.s = "CharClass" ->
             ( CASE c = "]" -> compile_phrase_loop(r, pos + 1, n, CState("None", <<>>),
                                                   Append(items, CharClass(state.acc)))
                 [] c = "\\" -> CompilePanic("Not supported in character class", pos)
                 [] OTHER -> compile_phrase_loop(r, pos + 1, n, CState("CharClass", Append(state.acc, c)), items) )
        [] state.s = "NegCharClass" ->
             ( CASE c = "]" -> compile_phrase_loop(r, pos + 1, n, CState("None", <<>>),
                                                   Append(items, NegCharClass(state.acc)))
                 [] c = "\\" -> CompilePanic("Not supported in character class", pos)
                 [] OTHER -> compile_phrase_loop(r, pos + 1, n, CState("NegCharClass", Append(state.acc, c)), items) )
        [] state.s = "Group" ->
             \* group_n = self.groups; self.groups += 1; then the loop
             LET g == compile_group(r, pos, n + 1, <<>>) IN
             IF g.err # "" THEN g
             ELSE compile_phrase_loop(r, g.pos + 1, g.groups, CState("None", <<>>),
                                      Append(items, Group(n, g.items)))

\* the `loop` of CompileState::Group: the alternatives of the group,
\* returned in items, with re_iter left on the closing parenthesis
compile_group(r, pos, n, grp) ==
    LET phrase == compile_phrase_loop(r, pos, n, CState("Beginning", <<>>), <<>>) IN
    IF phrase.err # "" THEN phrase
    ELSE LET alts == Append(grp, phrase.items) IN
         IF phrase.pos > Len(r) THEN CompilePanic("Group not closed", phrase.pos)
         ELSE IF r[phrase.pos] = "|" THEN compile_group(r, phrase.pos + 1, phrase.groups, alts)
         ELSE IF r[phrase.pos] = ")" THEN Compiled(alts, phrase.pos, phrase.groups)
         ELSE CompilePanic("Invalid group close", phrase.pos)

\* ReCompiler::compile_phrase, started on re_iter = pos with self.groups = n
compile_phrase(r, pos, n) ==
    compile_phrase_loop(r, pos, n, CState("Beginning", <<>>), <<>>)

----------------------------------------------------------------------------
(* The matcher *)

\* Backref
Backref(value, active) == [value |-> value, active |-> active]

\* Backref::new
Backref_new == Backref(<<>>, FALSE)

\* Matcher: text_iter and re_iter are what the iterators have left
Matcher(text_iter, re_iter, backreferences, matched) ==
    [text_iter |-> text_iter, re_iter |-> re_iter,
     backreferences |-> backreferences, matched |-> matched]

\* What a match function returns: Some(MatchResult) or None; or how the
\* process ended instead: a panic, or the call stack exhausted
Result(k, matched, backreferences, remainder, msg) ==
    [k |-> k, matched |-> matched, backreferences |-> backreferences,
     remainder |-> remainder, msg |-> msg]

None == Result("None", <<>>, <<>>, <<>>, "")
Panic(msg) == Result("Panic", <<>>, <<>>, <<>>, msg)
StackOverflow == Result("StackOverflow", <<>>, <<>>, <<>>, "")
Running == Result("Running", <<>>, <<>>, <<>>, "")

\* the process is gone: no caller gets to look at the value
Aborted(result) == result.k \in {"Panic", "StackOverflow"}

\* Some(self.into_result())
into_result(self) ==
    Result("Some", self.matched, self.backreferences, self.text_iter, "")

\* match_char: a bool, or the panic of an item that is no character test
CharTest(ok) == [panic |-> "", ok |-> ok]
CharPanic(msg) == [panic |-> msg, ok |-> FALSE]

\* match_char with the comparison of ReItem::Char lost: a literal accepts
\* any character
match_char_any(text_char, re_item) ==
    IF re_item.t = "Char" THEN CharTest(TRUE)
    ELSE CharTest(re_item.t = "Wildcard")

match_char(text_char, re_item) ==
    CASE re_item.t = "Char" -> CharTest(re_item.c = text_char)
      [] re_item.t = "Digit" -> CharTest(is_ascii_digit(text_char))
      [] re_item.t = "Alphanum" -> CharTest(is_ascii_alphanumeric(text_char))
      [] re_item.t = "CharClass" -> CharTest(contains(re_item.s, text_char))
      [] re_item.t = "NegCharClass" -> CharTest(~contains(re_item.s, text_char))
      [] re_item.t = "AnchorStart" -> CharPanic("Invalid: start anchor not at start")
      [] re_item.t = "AnchorEnd" -> CharTest(FALSE)
      [] re_item.t = "QuantZeroPlus" -> CharPanic("Invalid: quant 0+ not matchable")
      [] re_item.t = "QuantOnePlus" -> CharPanic("Invalid: quant 1+ not matchable")
      [] re_item.t = "QuantZeroOrOne" -> CharPanic("Invalid: quant 0-1 not matchable")
      [] re_item.t = "Wildcard" -> CharTest(TRUE)
      [] re_item.t = "Group" -> CharPanic("Invalid: alts not matchable")
      [] re_item.t = "GroupEnd" -> CharPanic("Invalid: end not matchable")
      [] re_item.t = "Backreference" -> CharPanic("Invalid: backreferences not matchable")

\* `for bref in &mut self.backreferences { if bref.active { bref.value.push(t0) } }`
push_active(backreferences, t0) ==
    [i \in DOMAIN backreferences |->
        IF backreferences[i].active
        THEN Backref(Append(backreferences[i].value, t0), TRUE)
        ELSE backreferences[i]]

\* self.backreferences[n].active = active (n counts from 0)
set_active(backreferences, n, active) ==
    [backreferences EXCEPT ![n + 1] = Backref(@.value, active)]

\* usize::saturating_sub(1)
saturating_sub1(x) == IF x = 0 THEN 0 ELSE x - 1

\* matches!(self.re_iter.peek(), Some(item))
peek_is(re_iter, item) == re_iter # <<>> /\ Head(re_iter) = item

RECURSIVE match_here(_, _)
RECURSIVE match_quant_greedy(_, _, _, _, _)
RECURSIVE match_group_alts(_, _, _, _, _)

\* Matcher::match_backref
match_backref(self, backref, depth) ==
    IF backref + 1 \in DOMAIN self.backreferences
    THEN LET value == self.backreferences[backref + 1].value
             re_bref == [i \in 1..Len(value) |-> Char(value[i])] \o self.re_iter
         IN match_here(Matcher(self.text_iter, re_bref, self.backreferences, self.matched),
                       depth + 1)
    ELSE None

\* Matcher::match_group_end
match_group_end(self, n, depth) ==
    match_here([self EXCEPT !.backreferences = set_active(@, n, FALSE)], depth + 1)

\* Matcher::match_group, entered with self.backreferences[n].active set
match_group(self, n, alts, depth) ==
    match_group_alts([self EXCEPT !.backreferences = set_active(@, n, TRUE)],
                     n, alts, 1, depth)

\* `for phrase in alts` of match_group, from the i-th alternative on
match_group_alts(self, n, alts, i, depth) ==
    IF i > Len(alts) THEN None
    ELSE LET re_phrase == alts[i] \o <<GroupEnd(n)>> \o self.re_iter
             phrase_result ==
                 match_here(Matcher(self.text_iter, re_phrase, self.backreferences,
                                    self.matched), depth + 1)
         IN IF phrase_result.k # "None" THEN phrase_result
            ELSE match_group_alts(self, n, alts, i + 1, depth)

\* Matcher::match_quant_greedy
match_quant_greedy(self, item, min, max, depth) ==
    IF depth > StackLimit THEN StackOverflow
    ELSE IF max = 0 THEN None
    ELSE LET single_result ==
                 match_here(Matcher(self.text_iter, <<item>>, self.backreferences, <<>>),
                            depth + 1)
         IN IF Aborted(single_result) THEN single_result
            ELSE IF single_result.k = "Some" THEN
                 LET matched == self.matched \o single_result.matched
                     after_single == Matcher(single_result.remainder, self.re_iter,
                                             single_result.backreferences, matched)
                     quant_result == match_quant_greedy(after_single, item,
                                                        saturating_sub1(min),
                                                        saturating_sub1(max), depth + 1)
                 IN IF quant_result.k # "None" THEN quant_result
                    ELSE match_here(after_single, depth + 1)
            ELSE IF min = 0 THEN match_here(self, depth + 1)
            ELSE None

\* Matcher::match_here
match_here(self, depth) ==
    IF depth > StackLimit THEN StackOverflow
    ELSE IF self.re_iter = <<>> THEN into_result(self)
    ELSE LET r0 == Head(self.re_iter)
             next == [self EXCEPT !.re_iter = Tail(@)]
             quant == [next EXCEPT !.re_iter = Tail(@)]
         IN IF peek_is(next.re_iter, QuantZeroPlus)
                THEN match_quant_greedy(quant, r0, 0, UsizeMax, depth + 1)
            ELSE IF peek_is(next.re_iter, QuantOnePlus)
                THEN match_quant_greedy(quant, r0, 1, UsizeMax, depth + 1)
            ELSE IF peek_is(next.re_iter, QuantZeroOrOne)
                THEN match_quant_greedy(quant, r0, 0, 1, depth + 1)
            ELSE IF r0.t = "Group" THEN match_group(next, r0.n, r0.alts, depth + 1)
            ELSE IF r0.t = "GroupEnd" THEN match_group_end(next, r0.n, depth + 1)
            ELSE IF r0.t = "Backreference" THEN match_backref(next, r0.n, depth + 1)
            ELSE IF next.text_iter # <<>> THEN
                 LET t0 == Head(next.text_iter)
                     test == match_char(t0, r0)
                 IN IF test.panic # "" THEN Panic(test.panic)
                    ELSE IF test.ok
                    THEN match_here(Matcher(Tail(next.text_iter), next.re_iter,
                                            push_active(next.backreferences, t0),
                                            Append(next.matched, t0)), depth + 1)
                    ELSE None
            ELSE IF r0 = AnchorEnd THEN into_result(next)
            ELSE None

\* the Matcher match_pattern builds for a phrase, after the scan loop of
\* match_phrase has taken n characters off its text_iter
phrase_matcher(t, phrase, ngroups, n) ==
    Matcher(SubSeq(t, n + 1, Len(t)), phrase,
            [i \in 1..ngroups |-> Backref_new], <<>>)

----------------------------------------------------------------------------
(* The inputs *)

\* all sequences over alphabet of length at most n
RECURSIVE SeqsUpTo(_, _)
SeqsUpTo(alphabet, n) ==
    IF n = 0 THEN {<<>>}
    ELSE LET shorter == SeqsUpTo(alphabet, n - 1)
         IN shorter \cup {Append(s, c) : s \in shorter, c \in alphabet}

\* characters with no special meaning in a pattern
LiteralAlphabet == {"a", "b", "1"}

\* the pattern characters the free-form patterns are written in
PatternAlphabet == {"a", "b", "^", "$", "*", "+", "?", "|", "(", ")"}

TextAlphabet == {"a", "b"}

LiteralPatterns == SeqsUpTo(LiteralAlphabet, MaxReLen)

FreePatterns == SeqsUpTo(PatternAlphabet, MaxReLen)

\* a two-alternative group, a quantifier or none, and a tail
GroupPatterns ==
    {<<"(">> \o x \o <<"|">> \o y \o <<")">> \o q \o tail :
        x \in {<<"a">>, <<"b">>, <<"a", "b">>},
        y \in {<<"a">>, <<"b">>, <<"a", "b">>},
        q \in {<<>>, <<"*">>, <<"+">>, <<"?">>},
        tail \in {<<>>, <<"a">>, <<"b">>, <<"\\", "1">>}}

\* classes, escapes, wildcard, backreferences: one pattern per compiler branch
EdgePatterns ==
    { <<"[", "a", "b", "]">>, <<"[", "^", "a", "]">>, <<"[", "]", "a">>,
      <<"[", "a", "\\", "]">>, <<"[", "^", "\\", "]">>, <<"]">>,
      <<"\\", "d">>, <<"\\", "w">>, <<"\\", "\\">>, <<"\\", "x">>,
      <<"a", ".", "b">>, <<"(", "a", ")", "\\", "1">>, <<"(", "a", ")", "\\", "2">>,
      <<"(", "a", "$", ")", "b">>, <<"(", "a", "|", "b">>, <<"(", "a", ")", "*", "\\", "1">> }

Patterns == FreePatterns \cup GroupPatterns \cup EdgePatterns

Texts == SeqsUpTo(TextAlphabet, MaxTextLen) \cup {<<"1">>, <<"a", "1">>, <<"\\">>}

----------------------------------------------------------------------------
(* match_pattern as a state machine *)

Start(patterns) ==
    /\ re \in patterns
    /\ text \in Texts
    /\ pc = "compile"
    /\ re_pos = 1
    /\ phrases = <<>>
    /\ groups = 0
    /\ phrase_i = 0
    /\ skipped = 0
    /\ outcome = Running

Init == Start(Patterns)

InitLiteral == Start(LiteralPatterns)

\* ReCompiler::compile: one iteration of `while re_iter.peek().is_some()`
Compile ==
    /\ pc = "compile"
    /\ re_pos <= Len(re)
    /\ Len(phrases) < MaxPhrases
    /\ LET phrase == compile_phrase(re, re_pos, groups)
       IN IF phrase.err # ""
          THEN /\ pc' = "done"
               /\ outcome' = Panic(phrase.err)
               /\ UNCHANGED <<re_pos, phrases, groups>>
          ELSE /\ phrases' = Append(phrases, phrase.items)
               /\ re_pos' = phrase.pos
               /\ groups' = phrase.groups
               /\ UNCHANGED <<pc, outcome>>
    /\ UNCHANGED <<re, text, phrase_i, skipped>>

\* ReCompiler::compile: the loop is over, the CompileResult is returned
CompileReturn ==
    /\ pc = "compile"
    /\ re_pos > Len(re)
    /\ pc' = "match_pattern"
    /\ phrase_i' = 1
    /\ UNCHANGED <<re, text, re_pos, phrases, groups, skipped, outcome>>

\* match_pattern: `for phrase in compile_result.phrases.iter()`, and the
\* final None
MatchPattern ==
    /\ pc = "match_pattern"
    /\ IF phrase_i <= Len(phrases)
       THEN /\ pc' = "match_phrase"
            /\ skipped' = 0
            /\ UNCHANGED outcome
       ELSE /\ pc' = "done"
            /\ outcome' = None
            /\ UNCHANGED skipped
    /\ UNCHANGED <<re, text, re_pos, phrases, groups, phrase_i>>

\* what match_pattern does with the value of matcher.match_phrase()
match_phrase_returns(result) ==
    IF result.k = "None"
    THEN /\ pc' = "match_pattern"
         /\ phrase_i' = phrase_i + 1
         /\ UNCHANGED outcome
    ELSE /\ pc' = "done"
         /\ outcome' = result
         /\ UNCHANGED phrase_i

\* Matcher::match_phrase: the anchored branch, or one iteration of the scan
\* loop
MatchPhrase ==
    /\ pc = "match_phrase"
    /\ LET self == phrase_matcher(text, phrases[phrase_i], groups, skipped)
       IN IF peek_is(self.re_iter, AnchorStart)
          THEN /\ match_phrase_returns(match_here([self EXCEPT !.re_iter = Tail(@)], 1))
               /\ UNCHANGED skipped
          ELSE LET result == match_here(self, 1)
               IN IF result.k # "None" THEN
                       /\ match_phrase_returns(result)
                       /\ UNCHANGED skipped
                  ELSE IF self.text_iter = <<>> THEN
                       /\ match_phrase_returns(None)
                       /\ UNCHANGED skipped
                  ELSE /\ skipped' = skipped + 1
                       /\ UNCHANGED <<pc, phrase_i, outcome>>
    /\ UNCHANGED <<re, text, re_pos, phrases, groups>>

Next == Compile \/ CompileReturn \/ MatchPattern \/ MatchPhrase

Spec == Init /\ [][Next]_vars

SpecLiteral == InitLiteral /\ [][Next]_vars

----------------------------------------------------------------------------
(* What the claims are stated in *)

\* compile has returned its CompileResult (CompileReturn sets phrase_i)
Compiled_ok == phrase_i >= 1

\* the pattern characters that mean something to compile_phrase
SpecialChars == {"\\", "[", "]", "^", "$", "*", "+", "?", ".", "(", ")", "|"}

\* a non-empty pattern text of characters with no special meaning
IsLiteralText(r) == r # <<>> /\ \A i \in 1..Len(r) : r[i] \notin SpecialChars

\* s stands in t right after the first o characters
IsPrefixAt(s, t, o) ==
    /\ o + Len(s) <= Len(t)
    /\ \A i \in 1..Len(s) : t[o + i] = s[i]

\* s is a contiguous substring of t
Occurs(s, t) == \E o \in 0..Len(t) : IsPrefixAt(s, t, o)

\* the items that test one character
CharItemKinds == {"Char", "Digit", "Alphanum", "CharClass", "NegCharClass", "Wildcard"}

QuantKinds == {"QuantZeroPlus", "QuantOnePlus", "QuantZeroOrOne"}

\* every item from the i-th on tests one character
CharItemsFrom(phrase, i) ==
    \A j \in i..Len(phrase) : phrase[j].t \in CharItemKinds

\* every item is a literal character
IsLiteralPhrase(phrase) == \A j \in 1..Len(phrase) : phrase[j].t = "Char"

\* the characters of a phrase of literals
PhraseText(phrase) == [j \in 1..Len(phrase) |-> phrase[j].c]

\* the Matcher the scan loop of match_phrase is about to try
ScanMatcher == phrase_matcher(text, phrases[phrase_i], groups, skipped)

\* the text the scan loop has left
ScanText == SubSeq(text, skipped + 1, Len(text))

----------------------------------------------------------------------------
(* C1 *)

\* C1: for the empty pattern text and every text t, match_pattern(t, "")
\* succeeds with the empty string as the match, found at the start of t
\* (nothing of t is consumed).
C1_EmptyPatternMatches ==
    (pc = "done" /\ re = <<>>) =>
        /\ outcome.k = "Some"
        /\ outcome.matched = <<>>
        /\ outcome.remainder = text

----------------------------------------------------------------------------
(* C2 *)

\* C2: for every non-empty literal pattern s and every text t,
\* match_pattern(t, s) is Some(s) if and only if s is a contiguous
\* substring of t; the scan tries the offsets 0, 1, ..., len(t) in
\* increasing order and stops at the first offset where s stands.
C2_LiteralSubstring ==
    IsLiteralText(re) =>
        /\ skipped <= Len(text)
        /\ pc = "match_phrase" =>
               \A o \in 0..(skipped - 1) : ~IsPrefixAt(re, text, o)
        /\ pc = "done" =>
               /\ outcome.k \in {"Some", "None"}
               /\ outcome.k = "Some" <=> Occurs(re, text)
               /\ outcome.k = "Some" =>
                      /\ outcome.matched = re
                      /\ IsPrefixAt(re, text, skipped)
                      /\ \A o \in 0..(skipped - 1) : ~IsPrefixAt(re, text, o)
               /\ outcome.k = "None" => skipped = Len(text)

\* a literal of two characters found after the scan has moved on
C2_Witness ==
    /\ pc = "done"
    /\ IsLiteralText(re)
    /\ Len(re) >= 2
    /\ outcome.k = "Some"
    /\ outcome.matched = re
    /\ skipped >= 1

----------------------------------------------------------------------------
(* C3 *)

\* the number of groups open before the i-th character
ParenDepth(r, i) ==
    Cardinality({j \in 1..(i - 1) : r[j] = "("})
        - Cardinality({j \in 1..(i - 1) : r[j] = ")"})

\* r has a `|` outside any group (and no class or escape to hide it in)
HasTopLevelBar(r) ==
    /\ \A j \in 1..Len(r) : r[j] \notin {"[", "]", "\\"}
    /\ \E i \in 1..Len(r) :
          /\ r[i] = "|"
          /\ \A k \in 1..i : ParenDepth(r, k) = 0

\* C3: for every pattern text with a `|` outside any group, compile
\* terminates and rejects the pattern: it returns no Pattern, and it does
\* not loop without consuming the `|` (every phrase it has pushed took at
\* least one character off the pattern text).
C3_TopLevelBarRejected ==
    HasTopLevelBar(re) =>
        /\ pc = "compile" => Len(phrases) < re_pos
        /\ ~Compiled_ok

----------------------------------------------------------------------------
(* C4 *)

\* C4: for every pattern that compile accepts and every text, matching
\* never aborts: match_char is never called with a StartAnchor, a
\* quantifier marker, a Group, a GroupEnd or a Backreference (each of which
\* panics), so no match attempt ends in a panic.
C4_MatchNeverPanics ==
    (pc = "done" /\ Compiled_ok) => outcome.k # "Panic"

----------------------------------------------------------------------------
(* C5 *)

\* the phrase is a single-character item, a quantifier, and then
\* single-character items only
QuantifiedHead(phrase) ==
    /\ Len(phrase) >= 2
    /\ phrase[1].t \in CharItemKinds
    /\ phrase[2].t \in QuantKinds
    /\ CharItemsFrom(phrase, 3)

QuantMin(q) == IF q.t = "QuantOnePlus" THEN 1 ELSE 0

\* the characters at the head of t that item accepts, one after the other
RECURSIVE Run(_, _)
Run(t, item) ==
    IF t = <<>> THEN 0
    ELSE IF match_char(Head(t), item).ok THEN 1 + Run(Tail(t), item)
    ELSE 0

\* the result the claim gives: the rest of the pattern matched after the
\* largest admissible number k of repetitions, None when there is no such k
GreedyChoice(t, item, q, rest) ==
    LET run == Run(t, item)
        top == IF q.t = "QuantZeroOrOne" /\ run > 1 THEN 1 ELSE run
        after(k) == match_here(Matcher(SubSeq(t, k + 1, Len(t)), rest, <<>>,
                                       SubSeq(t, 1, k)), 1)
        K == {k \in QuantMin(q)..top : after(k).k = "Some"}
    IN IF K = {} THEN None
       ELSE after(CHOOSE k \in K : \A j \in K : j <= k)

\* C5: for a single-character item x followed by `*`, `+` or `?`,
\* match_quant_greedy at a text position consumes the largest number k of
\* consecutive characters accepted by x, min <= k <= max, such that the
\* rest of the pattern matches after those k characters, and fails when
\* there is no such k.
C5_GreedyLargestK ==
    (pc = "match_phrase" /\ QuantifiedHead(phrases[phrase_i])) =>
        LET phrase == phrases[phrase_i]
        IN match_here(ScanMatcher, 1)
             = GreedyChoice(ScanText, phrase[1], phrase[2], SubSeq(phrase, 3, Len(phrase)))

----------------------------------------------------------------------------
(* C6 *)

\* AnchorStart is nowhere in the phrase but as its first item, and so in
\* every alternative of every group of it
RECURSIVE StartAnchorOnlyFirst(_)
StartAnchorOnlyFirst(phrase) ==
    \A i \in 1..Len(phrase) :
        /\ phrase[i].t = "AnchorStart" => i = 1
        /\ phrase[i].t = "Group" =>
               \A a \in 1..Len(phrase[i].alts) : StartAnchorOnlyFirst(phrase[i].alts[a])

\* C6: in every Pattern that compile returns, a StartAnchor item occurs
\* only as the first item of a phrase (top-level phrase or group
\* alternative).
C6_StartAnchorOnlyFirst ==
    Compiled_ok => \A i \in 1..Len(phrases) : StartAnchorOnlyFirst(phrases[i])

----------------------------------------------------------------------------
(* C7 *)

\* the phrase is a group of non-empty literal alternatives, alone or under
\* `+`, and then literals only
GroupHead(phrase) ==
    /\ Len(phrase) >= 1
    /\ phrase[1].t = "Group"
    /\ \A a \in 1..Len(phrase[1].alts) :
          phrase[1].alts[a] # <<>> /\ IsLiteralPhrase(phrase[1].alts[a])
    /\ IsLiteralPhrase(SubSeq(phrase, IF Len(phrase) >= 2 /\ phrase[2].t = "QuantOnePlus"
                                      THEN 3 ELSE 2, Len(phrase)))

GroupIsRepeated(phrase) == Len(phrase) >= 2 /\ phrase[2].t = "QuantOnePlus"

\* the text of the alternatives choice[j], ..., choice[k], one after the other
RECURSIVE ChoiceText(_, _, _)
ChoiceText(alts, choice, j) ==
    IF j > Len(choice) THEN <<>>
    ELSE PhraseText(alts[choice[j]]) \o ChoiceText(alts, choice, j + 1)

\* some choice of a repetition count and of one alternative per repetition
\* makes the whole phrase stand at the head of t
SomeChoiceMatches(phrase, t) ==
    LET alts == phrase[1].alts
        tail == PhraseText(SubSeq(phrase, IF GroupIsRepeated(phrase) THEN 3 ELSE 2,
                                  Len(phrase)))
        counts == IF GroupIsRepeated(phrase) THEN 1..Len(t) ELSE {1}
    IN \E k \in counts : \E choice \in [1..k -> 1..Len(alts)] :
           IsPrefixAt(ChoiceText(alts, choice, 1) \o tail, t, 0)

\* C7: for every group, followed by a quantifier or not, whenever some
\* choice of alternatives (and repetition counts) makes the whole phrase
\* match at a position, the match at that position succeeds.
C7_GroupTriesEveryChoice ==
    (pc = "match_phrase" /\ GroupHead(phrases[phrase_i])
        /\ SomeChoiceMatches(phrases[phrase_i], ScanText))
    => match_here(ScanMatcher, 1).k = "Some"

----------------------------------------------------------------------------
(* C8 *)

\* a phrase of single-character items and end anchors in which an item
\* that needs a character follows an end anchor
CharAfterEndAnchor(phrase) ==
    /\ \A i \in 1..Len(phrase) : phrase[i].t \in CharItemKinds \cup {"AnchorEnd"}
    /\ \E i \in 1..Len(phrase) : \E j \in (i + 1)..Len(phrase) :
          phrase[i].t = "AnchorEnd" /\ phrase[j].t \in CharItemKinds

\* C8: match_here returns success only after every remaining item has been
\* satisfied: an EndAnchor that holds is a zero-width step after which the
\* items that follow it are still matched, so a phrase that wants a
\* character after the end of the text (`a$b`) matches no text.
C8_EndAnchorThenRest ==
    (pc = "done" /\ Compiled_ok /\ Len(phrases) = 1 /\ CharAfterEndAnchor(phrases[1]))
    => outcome.k # "Some"

----------------------------------------------------------------------------
(* C9 *)

\* C9: for every pattern that compile accepts and every finite text,
\* match_pattern terminates: the expansion depth of a quantifier is bounded
\* by the remaining text, so the recursion never runs the stack out.
C9_MatchTerminates ==
    (pc = "done" /\ Compiled_ok) => outcome.k # "StackOverflow"

----------------------------------------------------------------------------
(* C10 *)

\* the phrase begins with group 0, whose alternatives are non-empty literals
CapturingHead(phrase) ==
    /\ Len(phrase) >= 1
    /\ phrase[1].t = "Group"
    /\ phrase[1].n = 0
    /\ \A a \in 1..Len(phrase[1].alts) :
          phrase[1].alts[a] # <<>> /\ IsLiteralPhrase(phrase[1].alts[a])

\* C10: the captured text of group n is exactly the characters consumed
\* between the most recent activation of the group and its group-end
\* (empty if it was never entered): text of an earlier entry is not kept.
\* So the buffer of a group of literal alternatives holds the text of one
\* alternative or nothing, and `(a|b)+\1` on "abb" matches "abb".
C10_CaptureIsLastEntry ==
    /\ (pc = "done" /\ outcome.k = "Some" /\ Len(phrases) = 1 /\ CapturingHead(phrases[1]))
       => \/ outcome.backreferences[1].value = <<>>
          \/ \E a \in 1..Len(phrases[1][1].alts) :
                outcome.backreferences[1].value = PhraseText(phrases[1][1].alts[a])
    /\ (pc = "done" /\ re = <<"(", "a", "|", "b", ")", "+", "\\", "1">>
                    /\ text = <<"a", "b", "b">>)
       => (outcome.k = "Some" /\ outcome.matched = <<"a", "b", "b">>)

====
